---- MODULE Spec2Model ----
(***************************************************************************)
(* A model of the CrossChat relay: the registry of platforms, channels and *)
(* messages (crosschat.py), the broadcast / edit / delete sweeps of a      *)
(* Message over the registered platform adapters, the readiness gate       *)
(* wait_for_platforms and the polling bridge wait_for_task.                *)
(***************************************************************************)
EXTENDS FiniteSets, Integers, Sequences, TLC

\* ---------------------------------------------------------------- bounds
MaxId == 2          \* native ids an adapter may hand out / an event may carry
MaxRegistered == 2  \* entries appended to one registry list (channels, messages)
MaxTasks == 2       \* asyncio tasks created in one run

\* ---------------------------------------------------------------- values
\* Python's None, as returned by dict.get on a missing key.
None == "None"
\* The coroutine object a call of an `async def` method returns when nobody awaits it.
Coroutine == "coroutine"
\* Native ids (message ids, channel ids), opaque to the core.
NativeIds == {ToString(n) : n \in 1..MaxId}
Contents == {"hi", "EDITED"}
\* The content an inbound event carries.
InboundContents == {"hi"}
Users == {"Alice(@alice123)"}
\* An OriginalMessage used as reply target, or None.
Replies == {None, "replyTo"}

\* The platform adapter objects of the repository.  Each has the name it is
\* constructed with and the class that decides how its operations behave.
PlatformObjs == {"p_test", "p_slack", "p_telegram", "p_discord"}
PName(o) ==
    CASE o = "p_test" -> "test"
      [] o = "p_slack" -> "slack"
      [] o = "p_telegram" -> "telegram"
      [] o = "p_discord" -> "discord"
PKind(o) ==
    CASE o = "p_test" -> "base"
      [] o = "p_slack" -> "base"
      [] o = "p_telegram" -> "telegram"
      [] o = "p_discord" -> "discord"
Names == {PName(o) : o \in PlatformObjs}

\* The Channel objects and the Message object the runs construct.  Objects of
\* one class share no state: every operation reads and writes the fields of
\* the object it is called on, and the registry.
ChanObjs == {"general", "random"}
MsgObjs == {"M"}
\* The channel the inbound events arrive on.
InboundChannels == {"general"}
\* The platform names Channel.set_id is given (test.py, main.py).
\* The Message object DiscordPlatform.on_message builds (wrapped_msg).
InboundMsgObjs == {"wrapped_msg"}
\* The author of an inbound event: a user, or the bot's own account.
BotUser == "bot"
Authors == Users \cup {BotUser}
\* The attachment lists of an inbound event (lists of file urls).
AttachmentLists == {<<>>, <<"url">>}
\* The adapters of the inbound scenarios: the echo adapter and Discord.
InboundPlatforms == {"p_test", "p_discord"}
\* The User objects handed to add_user.
UserObjs == {"u_alice"}
\* The adapters of the registry scenarios: the echo adapter.
RegistryPlatforms == {"p_test"}
\* The names and the platform objects handed to add_platform directly.
RegNames == {"test", "slack", "telegram"}
RegObjs == {"p_test", "p_slack", "p_telegram"}
ChanKeys == {"telegram", "discord"}

Threads == {"main", "sched"}
TaskIds == 1..MaxTasks

VARIABLES
    platforms,   \* CrossChat.platforms: insertion-ordered dict, as a sequence of [key, obj]
    channels,    \* CrossChat.channels: list of Channel objects
    messages,    \* CrossChat.messages: list of Message objects
    chan_ids,    \* Channel.ids of every Channel object: dict platform name -> native id
    msgs,        \* the Message objects constructed so far, by object
    running,     \* per adapter: the readiness its health_check reports
    frame,       \* per thread: the core operation it is executing, and its call log
    tasks,       \* asyncio tasks created on CrossChat.loop
    loopStarted, \* CrossChat.thread (loop.run_forever) has been started
    users,       \* CrossChat.users: list of User objects
    started      \* the adapters whose own thread has been started (TelegramPlatform.thread)

vars == <<platforms, channels, messages, chan_ids, msgs, running, frame, tasks,
          loopStarted, users, started>>

\* ---------------------------------------------------------------- dicts
\* dict.get(key): the value, or None when the key is absent.
DictGet(d, key) == IF key \in DOMAIN d THEN d[key] ELSE None
\* (an assignment that starts the dict afresh)
DictSetFresh(d, key, value) == (key :> value)
\* d[key] = value.
DictSet(d, key, value) == (key :> value) @@ d
EmptyDict == <<>>

\* ---------------------------------------------------------------- registry
KeyIndex(key) == CHOOSE i \in 1..Len(platforms) : platforms[i].key = key
HasKey(key) == \E i \in 1..Len(platforms) : platforms[i].key = key

\* (a registration that always adds a new entry)
add_platform_append(name, platform) == Append(platforms, [key |-> name, obj |-> platform])
\* CrossChat.add_platform: self.platforms[name] = platform.  A Python dict keeps
\* the position of a key that is assigned again.
add_platform(name, platform) ==
    IF HasKey(name)
    THEN [platforms EXCEPT ![KeyIndex(name)] = [key |-> name, obj |-> platform]]
    ELSE Append(platforms, [key |-> name, obj |-> platform])

\* CrossChat.get_platform: self.platforms.get(name).
get_platform(name) == IF HasKey(name) THEN platforms[KeyIndex(name)].obj ELSE None

\* (a listing of the names newest first)
get_platforms_str_reversed ==
    [i \in 1..Len(platforms) |-> platforms[Len(platforms) + 1 - i].key]
\* CrossChat.get_platforms_str: list(self.platforms.keys()).
get_platforms_str == [i \in 1..Len(platforms) |-> platforms[i].key]

\* list.remove(x): drops the first occurrence of x.
RECURSIVE ListRemove(_, _)
ListRemove(s, x) ==
    IF s = <<>> THEN <<>>
    ELSE IF Head(s) = x THEN Tail(s)
    ELSE <<Head(s)>> \o ListRemove(Tail(s), x)

SeqToSet(s) == {s[i] : i \in 1..Len(s)}

\* ---------------------------------------------------------------- adapters
Outcome(raised, ret, posted) == [raised |-> raised, ret |-> ret, posted |-> posted]

\* Platform.send_message and its overrides: the outcomes one call can have.
\*  base:     prints and returns random.randint(100000, 999999);
\*  telegram: builds the bot coroutine, then calls self.crosschat.run_coroutine,
\*            which CrossChat does not define: AttributeError;
\*  discord:  `async def`: the call returns a coroutine object, nothing runs.
send_message(o) ==
    CASE PKind(o) = "base" -> {Outcome(FALSE, i, TRUE) : i \in NativeIds}
      [] PKind(o) = "telegram" -> {Outcome(TRUE, None, FALSE)}
      [] PKind(o) = "discord" -> {Outcome(FALSE, Coroutine, FALSE)}

\* Platform.edit_message and its overrides (TelegramPlatform inherits the base one).
edit_message(o) ==
    CASE PKind(o) = "base" -> {Outcome(FALSE, None, TRUE)}
      [] PKind(o) = "telegram" -> {Outcome(FALSE, None, TRUE)}
      [] PKind(o) = "discord" -> {Outcome(FALSE, Coroutine, FALSE)}

\* (a TelegramPlatform.delete_message written like its send_message)
delete_message_raising(o) ==
    CASE PKind(o) = "base" -> {Outcome(FALSE, None, TRUE)}
      [] PKind(o) = "telegram" -> {Outcome(TRUE, None, FALSE)}
      [] PKind(o) = "discord" -> {Outcome(FALSE, Coroutine, FALSE)}
\* Platform.delete_message and its overrides (TelegramPlatform inherits the base one).
delete_message(o) ==
    CASE PKind(o) = "base" -> {Outcome(FALSE, None, TRUE)}
      [] PKind(o) = "telegram" -> {Outcome(FALSE, None, TRUE)}
      [] PKind(o) = "discord" -> {Outcome(FALSE, Coroutine, FALSE)}

\* The thread on which the body of an adapter method runs when the core, on
\* thread t, makes the call `platform.method(...)`: the call is a plain Python
\* call, so the body of a `def` runs on t itself (TelegramPlatform.send_message
\* runs on t up to the statement that raises); the body of DiscordPlatform's
\* `async def` methods runs nowhere, the coroutine object is dropped.
ExecutedOn(o, t) ==
    CASE PKind(o) = "base" -> t
      [] PKind(o) = "telegram" -> t
      [] PKind(o) = "discord" -> None

\* Message.broadcast calls send_message(self.channel, self.content, self.user,
\* self.reply): the adapter's fifth parameter, attachments, keeps its default,
\* the empty list, whatever self.originalMessage.attachments holds.
PassedAttachments(m) == <<>>

\* messageId = message.get_id(self.name), the first statement of
\* Platform.edit_message and Platform.delete_message: the id M holds for the
\* platform at the moment of the call, None when it holds none.  send_message
\* reads no id, and the body of DiscordPlatform's `async def` methods never runs.
MessageIdRead(fn, o, m) ==
    IF fn = "send_message" \/ PKind(o) = "discord"
    THEN None
    ELSE DictGet(msgs[m].ids, PName(o))

\* One entry of a thread's call log: an adapter method invoked by the core.
Call(fn, o, m, content, out) ==
    [fn |-> fn, obj |-> o, msg |-> m, channel |-> msgs[m].channel, content |-> content,
     user |-> msgs[m].user, reply |-> msgs[m].reply, out |-> out,
     attachments |-> IF fn = "send_message" THEN PassedAttachments(m) ELSE <<>>,
     messageId |-> MessageIdRead(fn, o, m)]

\* ---------------------------------------------------------------- tasks
\* An asyncio task: not created, pending, or done with the outcome of its coroutine.
NoTask == [state |-> "none", failed |-> FALSE, value |-> None]

\* ---------------------------------------------------------------- frames
\* frame[t] is the core call thread t is in, or the last one it made: the next
\* call the thread makes replaces it.
Idle == [op |-> "none", status |-> "idle", m |-> None, todo |-> <<>>, idx |-> 0,
         arg |-> None, id |-> None, key |-> None, calls |-> <<>>, writes |-> 0,
         task |-> 0, ret |-> None, polled |-> {}, passed |-> {}, waited |-> FALSE,
         cb |-> None, entered |-> 0]

Busy(t) == frame[t].status = "running"

\* ---------------------------------------------------------------- init
Init ==
    /\ platforms = <<>>
    /\ channels = <<>>
    /\ messages = <<>>
    /\ chan_ids = [c \in ChanObjs |-> EmptyDict]
    /\ msgs = EmptyDict
    /\ running = [o \in PlatformObjs |-> PKind(o) = "base"]
    /\ frame = [t \in Threads |-> Idle]
    /\ tasks = [k \in TaskIds |-> NoTask]
    /\ loopStarted = FALSE
    /\ users = <<>>
    /\ started = {}

\* ---------------------------------------------------------------- registration
\* Platform.add_to_crosschat: self.crosschat.add_platform(self.name, self).
AddToCrosschat(t, o) ==
    /\ ~Busy(t)
    /\ platforms' = add_platform(PName(o), o)
    /\ frame' = [frame EXCEPT ![t] = Idle]
    /\ UNCHANGED <<channels, messages, chan_ids, msgs, running, tasks,
                   loopStarted, users, started>>

\* OriginalMessage(...) followed by Message(crosschat, originalMessage, reply):
\* channel, user and content are copied, ids is seeded with the origin's id.
Message(originalMessage, reply) ==
    [channel |-> originalMessage.channel,
     user |-> originalMessage.user,
     content |-> originalMessage.content,
     ids |-> DictSet(EmptyDict, PName(originalMessage.platform), originalMessage.id),
     originalMessage |-> originalMessage,
     reply |-> reply]

NewMessage(t, m) ==
    /\ ~Busy(t)
    /\ m \notin DOMAIN msgs
    /\ \E o \in PlatformObjs, id \in NativeIds, content \in InboundContents,
          user \in Users, channel \in InboundChannels, reply \in Replies :
          msgs' = DictSet(msgs, m, Message([content |-> content, id |-> id,
                                           platform |-> o, user |-> user,
                                           channel |-> channel,
                                           attachments |-> <<>>], reply))
    /\ frame' = [frame EXCEPT ![t] = Idle]
    /\ UNCHANGED <<platforms, channels, messages, chan_ids, running, tasks,
                   loopStarted, users, started>>

\* CrossChat.add_message: self.messages.append(message).
AddMessage(t, m) ==
    /\ ~Busy(t)
    /\ m \in DOMAIN msgs
    /\ Len(messages) < MaxRegistered
    /\ messages' = Append(messages, m)
    /\ frame' = [frame EXCEPT ![t] = Idle]
    /\ UNCHANGED <<platforms, channels, chan_ids, msgs, running, tasks,
                   loopStarted, users, started>>

\* ---------------------------------------------------------------- broadcast
\* (a broadcast that forgets to drop the origin)
BroadcastTargetsWithOrigin(m) == get_platforms_str
\* Message.broadcast, entry: the list of platform names without the origin's.
BroadcastTargets(m) ==
    LET originalPlatformName == PName(msgs[m].originalMessage.platform)
        names == get_platforms_str
    IN IF originalPlatformName \in SeqToSet(names)
       THEN ListRemove(names, originalPlatformName)
       ELSE names

BroadcastCall(t, m) ==
    /\ ~Busy(t)
    /\ m \in DOMAIN msgs
    /\ LET todo == BroadcastTargets(m)
       IN frame' = [frame EXCEPT ![t] =
              [Idle EXCEPT !.op = "broadcast", !.m = m, !.todo = todo,
                           !.status = IF todo = <<>> THEN "returned" ELSE "running"]]
    /\ UNCHANGED <<platforms, channels, messages, chan_ids, msgs, running, tasks,
                   loopStarted, users, started>>

\* (a broadcast whose ids dict is one object shared by all Messages)
BroadcastStepShared(t) ==
    /\ Busy(t)
    /\ frame[t].op = "broadcast"
    /\ LET f == frame[t]
           m == f.m
           platformName == Head(f.todo)
           platform == get_platform(platformName)
           rest == Tail(f.todo)
           next == IF rest = <<>> THEN "returned" ELSE "running"
       IN IF platform = None
          THEN /\ frame' = [frame EXCEPT ![t].todo = rest, ![t].status = next]
               /\ UNCHANGED msgs
          ELSE \E out \in send_message(platform) :
                 LET call == Call("send_message", platform, m, msgs[m].content, out)
                 IN IF out.raised
                    THEN /\ frame' = [frame EXCEPT ![t].calls = Append(@, call),
                                                   ![t].status = "raised"]
                         /\ UNCHANGED msgs
                    ELSE /\ frame' = [frame EXCEPT ![t].calls = Append(@, call),
                                                   ![t].todo = rest,
                                                   ![t].status = next]
                         /\ msgs' = [mm \in DOMAIN msgs |->
                                        [msgs[mm] EXCEPT !.ids =
                                           DictSet(@, PName(platform), out.ret)]]
    /\ UNCHANGED <<platforms, channels, messages, chan_ids, running, tasks,
                   loopStarted, users, started>>

\* Message.broadcast, one turn of the loop: look the platform up, send, record
\* the returned id under platform.name.  An exception raised by the adapter is
\* not caught: it ends the loop and leaves broadcast.
BroadcastStep(t) ==
    /\ Busy(t)
    /\ frame[t].op = "broadcast"
    /\ LET f == frame[t]
           m == f.m
           platformName == Head(f.todo)
           platform == get_platform(platformName)
           rest == Tail(f.todo)
           next == IF rest = <<>> THEN "returned" ELSE "running"
       IN IF platform = None
          THEN /\ frame' = [frame EXCEPT ![t].todo = rest, ![t].status = next]
               /\ UNCHANGED msgs
          ELSE \E out \in send_message(platform) :
                 LET call == Call("send_message", platform, m, msgs[m].content, out)
                 IN IF out.raised
                    THEN /\ frame' = [frame EXCEPT ![t].calls = Append(@, call),
                                                   ![t].status = "raised"]
                         /\ UNCHANGED msgs
                    ELSE /\ frame' = [frame EXCEPT ![t].calls = Append(@, call),
                                                   ![t].todo = rest,
                                                   ![t].status = next]
                         /\ msgs' = [msgs EXCEPT ![m].ids =
                                        DictSet(@, PName(platform), out.ret)]
    /\ UNCHANGED <<platforms, channels, messages, chan_ids, running, tasks,
                   loopStarted, users, started>>

\* ---------------------------------------------------------------- edit
\* Message.edit, last statement: self.content = newContent.
AssignContentSkipped(message, newContent) == message
\* (an assignment that also forgets the ids)
AssignContentClearIds(message, newContent) ==
    [message EXCEPT !.content = newContent, !.ids = EmptyDict]
AssignContent(message, newContent) == [message EXCEPT !.content = newContent]

\* (an edit that assigns the new content before it dispatches)
EditCallAssignFirst(t, m, newContent) ==
    /\ ~Busy(t)
    /\ m \in DOMAIN msgs
    /\ frame' = [frame EXCEPT ![t] =
          [Idle EXCEPT !.op = "edit", !.m = m, !.arg = newContent,
                       !.idx = IF Len(platforms) = 0 THEN 0 ELSE 1,
                       !.writes = IF Len(platforms) = 0 THEN 1 ELSE 0,
                       !.status = IF Len(platforms) = 0 THEN "returned" ELSE "running"]]
    /\ msgs' = [msgs EXCEPT ![m].content = newContent]
    /\ UNCHANGED <<platforms, channels, messages, chan_ids, running, tasks,
                   loopStarted, users, started>>

\* Message.edit, entry: platforms = self.crosschat.platforms.values() is a live
\* view, walked by position.  With no platform registered the loop body never
\* runs and self.content = newContent follows at once.
EditCall(t, m, newContent) ==
    /\ ~Busy(t)
    /\ m \in DOMAIN msgs
    /\ IF Len(platforms) = 0
       THEN /\ frame' = [frame EXCEPT ![t] =
                  [Idle EXCEPT !.op = "edit", !.m = m, !.arg = newContent,
                               !.writes = 1, !.status = "returned"]]
            /\ msgs' = [msgs EXCEPT ![m] = AssignContent(@, newContent)]
       ELSE /\ frame' = [frame EXCEPT ![t] =
                  [Idle EXCEPT !.op = "edit", !.m = m, !.arg = newContent,
                               !.idx = 1, !.status = "running"]]
            /\ UNCHANGED msgs
    /\ UNCHANGED <<platforms, channels, messages, chan_ids, running, tasks,
                   loopStarted, users, started>>

\* Message.edit, one turn of the loop: platform.edit_message(self.channel, self,
\* newContent); after the last turn, self.content = newContent.
EditStep(t) ==
    /\ Busy(t)
    /\ frame[t].op = "edit"
    /\ LET f == frame[t]
           m == f.m
           platform == platforms[f.idx].obj
           last == f.idx = Len(platforms)
       IN \E out \in edit_message(platform) :
            LET call == Call("edit_message", platform, m, f.arg, out)
            IN IF out.raised
               THEN /\ frame' = [frame EXCEPT ![t].calls = Append(@, call),
                                              ![t].status = "raised"]
                    /\ UNCHANGED msgs
               ELSE IF last
               THEN /\ frame' = [frame EXCEPT ![t].calls = Append(@, call),
                                              ![t].idx = @ + 1,
                                              ![t].writes = @ + 1,
                                              ![t].status = "returned"]
                    /\ msgs' = [msgs EXCEPT ![m] = AssignContent(@, f.arg)]
               ELSE /\ frame' = [frame EXCEPT ![t].calls = Append(@, call),
                                              ![t].idx = @ + 1]
                    /\ UNCHANGED msgs
    /\ UNCHANGED <<platforms, channels, messages, chan_ids, running, tasks,
                   loopStarted, users, started>>

\* ---------------------------------------------------------------- delete
\* Message.delete, entry: the same live view of the registered platforms.
DeleteCall(t, m) ==
    /\ ~Busy(t)
    /\ m \in DOMAIN msgs
    /\ frame' = [frame EXCEPT ![t] =
          [Idle EXCEPT !.op = "delete", !.m = m,
                       !.idx = IF Len(platforms) = 0 THEN 0 ELSE 1,
                       !.status = IF Len(platforms) = 0 THEN "returned" ELSE "running"]]
    /\ UNCHANGED <<platforms, channels, messages, chan_ids, msgs, running, tasks,
                   loopStarted, users, started>>

\* Message.delete, one turn of the loop: platform.delete_message(self.channel, self).
DeleteStep(t) ==
    /\ Busy(t)
    /\ frame[t].op = "delete"
    /\ LET f == frame[t]
           platform == platforms[f.idx].obj
           last == f.idx = Len(platforms)
       IN \E out \in delete_message(platform) :
            LET call == Call("delete_message", platform, f.m, None, out)
            IN frame' = [frame EXCEPT ![t].calls = Append(@, call),
                                      ![t].idx = IF out.raised THEN @ ELSE @ + 1,
                                      ![t].status = IF out.raised THEN "raised"
                                                    ELSE IF last THEN "returned"
                                                    ELSE "running"]
    /\ UNCHANGED <<platforms, channels, messages, chan_ids, msgs, running, tasks,
                   loopStarted, users, started>>

Next ==
    \/ \E o \in PlatformObjs : AddToCrosschat("main", o)
    \/ \E m \in MsgObjs : NewMessage("main", m)
    \/ \E m \in MsgObjs : AddMessage("main", m)
    \/ \E m \in MsgObjs : BroadcastCall("main", m)
    \/ BroadcastStep("main")
    \/ \E m \in MsgObjs, c \in Contents : EditCall("main", m, c)
    \/ EditStep("main")
    \/ \E m \in MsgObjs : DeleteCall("main", m)
    \/ DeleteStep("main")

Spec == Init /\ [][Next]_vars

\* ---------------------------------------------------------------- channels
\* Channel.set_id: self.ids[key] = id, key being the platform's name.
SetId(t, c, key, id) ==
    /\ ~Busy(t)
    /\ chan_ids' = [chan_ids EXCEPT ![c] = DictSet(@, key, id)]
    /\ frame' = [frame EXCEPT ![t] = Idle]
    /\ UNCHANGED <<platforms, channels, messages, msgs, running, tasks, loopStarted, users, started>>

\* (a registration that puts the new channel first)
AddChannelFront(t, c) ==
    /\ ~Busy(t)
    /\ Len(channels) < MaxRegistered
    /\ channels' = <<c>> \o channels
    /\ frame' = [frame EXCEPT ![t] = Idle]
    /\ UNCHANGED <<platforms, messages, chan_ids, msgs, running, tasks, loopStarted, users, started>>
\* CrossChat.add_channel: self.channels.append(channel).
AddChannel(t, c) ==
    /\ ~Busy(t)
    /\ Len(channels) < MaxRegistered
    /\ channels' = Append(channels, c)
    /\ frame' = [frame EXCEPT ![t] = Idle]
    /\ UNCHANGED <<platforms, messages, chan_ids, msgs, running, tasks, loopStarted, users, started>>

\* Channel.get_id: self.ids.get(key).
ChannelGetId(c, key) == DictGet(chan_ids[c], key)

\* (a lookup that matches the id under any platform name)
RECURSIVE ScanAnyKey(_, _, _)
ScanAnyKey(list, id, key) ==
    IF list = <<>> THEN None
    ELSE IF \E k \in DOMAIN chan_ids[Head(list)] : chan_ids[Head(list)][k] = id
    THEN Head(list)
    ELSE ScanAnyKey(Tail(list), id, key)
\* (a lookup that first asks the registry for the platform)
RECURSIVE ScanRegistered(_, _, _)
ScanRegistered(list, id, key) ==
    IF list = <<>> \/ ~HasKey(key) THEN None
    ELSE IF ChannelGetId(Head(list), key) = id THEN Head(list)
    ELSE ScanRegistered(Tail(list), id, key)
\* CrossChat.get_channel, the loop: the first channel of the list whose id for
\* key equals id, None when the list is exhausted.
RECURSIVE Scan(_, _, _)
Scan(list, id, key) ==
    IF list = <<>> THEN None
    ELSE IF ChannelGetId(Head(list), key) = id THEN Head(list)
    ELSE Scan(Tail(list), id, key)

\* CrossChat.get_channel(id, platform): key is the name, then the scan.
get_channel_any_key(id, key) == ScanAnyKey(channels, id, key)
get_channel_registered(id, key) == ScanRegistered(channels, id, key)
get_channel(id, key) == Scan(channels, id, key)

GetChannel(t, id, key) ==
    /\ ~Busy(t)
    /\ frame' = [frame EXCEPT ![t] =
          [Idle EXCEPT !.op = "get_channel", !.status = "returned", !.id = id,
                       !.key = key, !.ret = get_channel(id, key)]]
    /\ UNCHANGED <<platforms, channels, messages, chan_ids, msgs, running, tasks,
                   loopStarted, users, started>>

\* The adapters whose names the channels carry ids for.
ChanPlatforms == {o \in PlatformObjs : PName(o) \in ChanKeys}

NextChan ==
    \/ \E o \in ChanPlatforms : AddToCrosschat("main", o)
    \/ \E c \in ChanObjs, key \in ChanKeys, id \in NativeIds : SetId("main", c, key, id)
    \/ \E c \in ChanObjs : AddChannel("main", c)
    \/ \E id \in NativeIds, key \in ChanKeys : GetChannel("main", id, key)

SpecChan == Init /\ [][NextChan]_vars

\* The id argument of get_channel when the caller may also pass None.
LookupIds == NativeIds \cup {None}

NextChanAnyId ==
    \/ \E o \in ChanPlatforms : AddToCrosschat("main", o)
    \/ \E c \in ChanObjs, key \in ChanKeys, id \in NativeIds : SetId("main", c, key, id)
    \/ \E c \in ChanObjs : AddChannel("main", c)
    \/ \E id \in LookupIds, key \in ChanKeys : GetChannel("main", id, key)

SpecChanAnyId == Init /\ [][NextChanAnyId]_vars

\* ---------------------------------------------------------------- readiness
\* Platform.health_check and its overrides: the base class answers True,
\* TelegramPlatform answers self.app.running, DiscordPlatform answers
\* self.running and self.client.is_ready().
health_check(o) ==
    CASE PKind(o) = "base" -> TRUE
      [] PKind(o) = "telegram" -> running[o]
      [] PKind(o) = "discord" -> running[o]

\* The adapter's own event loop makes it ready (DiscordPlatform.on_ready,
\* the telegram Application starting) ...
AdapterUp(o) ==
    /\ PKind(o) # "base"
    /\ ~running[o]
    /\ running' = [running EXCEPT ![o] = TRUE]
    /\ UNCHANGED <<platforms, channels, messages, chan_ids, msgs, frame, tasks,
                   loopStarted, users, started>>

\* ... or not ready any more (DiscordPlatform.exit, the Application stopping).
AdapterDown(o) ==
    /\ PKind(o) # "base"
    /\ running[o]
    /\ running' = [running EXCEPT ![o] = FALSE]
    /\ UNCHANGED <<platforms, channels, messages, chan_ids, msgs, frame, tasks,
                   loopStarted, users, started>>

\* CrossChat.wait_for_platforms, entry: the for loop over self.platforms.values().
WaitForPlatformsCall(t) ==
    /\ ~Busy(t)
    /\ frame' = [frame EXCEPT ![t] =
          [Idle EXCEPT !.op = "wait_for_platforms",
                       !.idx = IF Len(platforms) = 0 THEN 0 ELSE 1,
                       !.status = IF Len(platforms) = 0 THEN "returned" ELSE "running"]]
    /\ UNCHANGED <<platforms, channels, messages, chan_ids, msgs, running, tasks,
                   loopStarted, users, started>>

\* `while not platform.health_check(): time.sleep(1)`: the platform the for
\* loop is at after one evaluation of the while condition.
AfterPollNoLoop(idx, healthy) == idx + 1
\* (a gate that polls the same platform again whatever it answered)
AfterPollStuck(idx, healthy) == idx
AfterPoll(idx, healthy) == IF healthy THEN idx + 1 ELSE idx

\* CrossChat.wait_for_platforms, one evaluation of the while condition.
WaitForPlatformsPoll(t) ==
    /\ Busy(t)
    /\ frame[t].op = "wait_for_platforms"
    /\ LET f == frame[t]
           healthy == health_check(platforms[f.idx].obj)
           idx == AfterPoll(f.idx, healthy)
       IN frame' = [frame EXCEPT ![t].polled = @ \cup {f.idx},
                                 ![t].passed = IF healthy THEN @ \cup {f.idx} ELSE @,
                                 ![t].waited = @ \/ ~healthy,
                                 ![t].idx = idx,
                                 ![t].status = IF idx > Len(platforms) THEN "returned"
                                               ELSE "running"]
    /\ UNCHANGED <<platforms, channels, messages, chan_ids, msgs, running, tasks,
                   loopStarted, users, started>>

NextReady ==
    \/ \E o \in PlatformObjs : AddToCrosschat("main", o)
    \/ \E o \in PlatformObjs : AdapterUp(o)
    \/ \E o \in PlatformObjs : AdapterDown(o)
    \/ WaitForPlatformsCall("main")
    \/ WaitForPlatformsPoll("main")

SpecReady == Init /\ [][NextReady]_vars

\* The thread inside wait_for_platforms keeps running: after each sleep(1) it
\* polls again.
FairReady == Init /\ [][NextReady]_vars /\ WF_vars(WaitForPlatformsPoll("main"))

\* ---------------------------------------------------------------- bridge
\* Platform.run and its overrides: TelegramPlatform.run builds its polling
\* thread and starts it; the base class prints; DiscordPlatform.run is an
\* `async def`, its call only builds a coroutine.
RunStartsThread == {i \in 1..Len(platforms) : PKind(platforms[i].obj) = "telegram"}

\* Platform.run and its overrides, the outcome of one call: the base class
\* prints, TelegramPlatform.run starts its polling thread, DiscordPlatform.run
\* is an `async def` whose call returns a coroutine that nothing awaits.
run(o) ==
    CASE PKind(o) = "base" -> Outcome(FALSE, None, TRUE)
      [] PKind(o) = "telegram" -> Outcome(FALSE, None, TRUE)
      [] PKind(o) = "discord" -> Outcome(FALSE, Coroutine, FALSE)

\* One entry of the call log of CrossChat.run.
RunCallEntry(o, out) == [fn |-> "run", obj |-> o, out |-> out]

\* (a startup that connects the first platform only)
RunCallsFirstOnly ==
    [i \in 1..(IF Len(platforms) = 0 THEN 0 ELSE 1) |->
       RunCallEntry(platforms[i].obj, run(platforms[i].obj))]
\* CrossChat.run, the for loop: platform.run() on self.platforms.values().
RunCalls ==
    [i \in 1..Len(platforms) |-> RunCallEntry(platforms[i].obj, run(platforms[i].obj))]

\* CrossChat.run: platform.run() for every registered platform, then
\* self.thread.start(): the loop thread runs loop.run_forever from now on.
\* A Thread can be started once: on a second call of run the platforms are
\* run again and start() raises RuntimeError.
Run(t) ==
    /\ ~Busy(t)
    /\ loopStarted' = TRUE
    /\ started' = started \cup {platforms[i].obj : i \in RunStartsThread}
    /\ frame' = [frame EXCEPT ![t] =
          [Idle EXCEPT !.op = "run", !.calls = RunCalls,
                       !.status = IF loopStarted THEN "raised" ELSE "returned"]]
    /\ UNCHANGED <<platforms, channels, messages, chan_ids, msgs, running, tasks, users>>

\* TelegramPlatform.exit, first statement: task = loop.create_task(self.app.stop()).
CreateTask(t, k) ==
    /\ ~Busy(t)
    /\ tasks[k].state = "none"
    /\ \A j \in TaskIds : j < k => tasks[j].state # "none"
    /\ tasks' = [tasks EXCEPT ![k].state = "pending"]
    /\ frame' = [frame EXCEPT ![t] = Idle]
    /\ UNCHANGED <<platforms, channels, messages, chan_ids, msgs, running, loopStarted, users, started>>

\* The outcomes of the coroutine Application.stop(): it returns None, or raises
\* RuntimeError when the application is not running.
TaskOutcomes == {[failed |-> FALSE, value |-> None], [failed |-> TRUE, value |-> "RuntimeError"]}

\* (a loop that ran its tasks on a thread of their own)
LoopRunTaskAnyThread(k) ==
    /\ loopStarted
    /\ tasks[k].state = "pending"
    /\ \E out \in TaskOutcomes :
         tasks' = [tasks EXCEPT ![k] = [state |-> "done", failed |-> out.failed,
                                        value |-> out.value]]
    /\ UNCHANGED <<platforms, channels, messages, chan_ids, msgs, running, frame,
                   loopStarted, users, started>>
\* The loop thread (loop.run_forever) runs a pending task to its end.  It can do
\* so only while it is not itself held inside a blocking core call.
LoopRunTask(k) ==
    /\ loopStarted
    /\ ~Busy("sched")
    /\ tasks[k].state = "pending"
    /\ \E out \in TaskOutcomes :
         tasks' = [tasks EXCEPT ![k] = [state |-> "done", failed |-> out.failed,
                                        value |-> out.value]]
    /\ UNCHANGED <<platforms, channels, messages, chan_ids, msgs, running, frame,
                   loopStarted, users, started>>

\* asyncio.Task.done(), the condition of wait_for_task's while loop.
TaskDoneOrPending(k) == tasks[k].state # "none"
TaskDone(k) == tasks[k].state = "done"

\* CrossChat.wait_for_task, entry.
WaitForTaskCall(t, k) ==
    /\ ~Busy(t)
    /\ tasks[k].state # "none"
    /\ frame' = [frame EXCEPT ![t] =
          [Idle EXCEPT !.op = "wait_for_task", !.task = k, !.status = "running"]]
    /\ UNCHANGED <<platforms, channels, messages, chan_ids, msgs, running, tasks,
                   loopStarted, users, started>>

\* CrossChat.wait_for_task, one evaluation of `while not task.done()`: sleep and
\* come back, or fall off the end of the function, which returns None.
WaitForTaskPoll(t) ==
    /\ Busy(t)
    /\ frame[t].op = "wait_for_task"
    /\ IF TaskDone(frame[t].task)
       THEN frame' = [frame EXCEPT ![t].status = "returned", ![t].ret = None]
       ELSE frame' = [frame EXCEPT ![t].waited = TRUE]
    /\ UNCHANGED <<platforms, channels, messages, chan_ids, msgs, running, tasks,
                   loopStarted, users, started>>

NextBridge ==
    \/ Run("main")
    \/ \E t \in Threads, k \in TaskIds : CreateTask(t, k)
    \/ \E k \in TaskIds : LoopRunTask(k)
    \/ \E t \in Threads, k \in TaskIds : WaitForTaskCall(t, k)
    \/ \E t \in Threads : WaitForTaskPoll(t)

SpecBridge == Init /\ [][NextBridge]_vars

\* The calling thread keeps running: its poll loop is not starved for ever.
FairBridge == Init /\ [][NextBridge]_vars /\ \A t \in Threads : WF_vars(WaitForTaskPoll(t))

\* ---------------------------------------------------------------- shutdown
\* Platform.exit and DiscordPlatform.exit: the base class prints; Discord's is
\* an `async def`, its call only builds a coroutine.  (TelegramPlatform.exit
\* takes several steps, see ExitStep and ExitTelegramWait.)
exit(o) ==
    CASE PKind(o) = "base" -> Outcome(FALSE, None, TRUE)
      [] PKind(o) = "discord" -> Outcome(FALSE, Coroutine, FALSE)

\* One entry of the call log of CrossChat.exit.
ExitCallEntry(o, out) == [fn |-> "exit", obj |-> o, out |-> out]

\* The task id loop.create_task hands out next, 0 when the model has no more.
FreeTask ==
    IF \E k \in TaskIds : tasks[k].state = "none"
    THEN CHOOSE k \in TaskIds :
           tasks[k].state = "none" /\ \A j \in TaskIds : j < k => tasks[j].state # "none"
    ELSE 0

\* CrossChat.exit, entry: the for loop over self.platforms.values().
ExitCall(t) ==
    /\ ~Busy(t)
    /\ frame' = [frame EXCEPT ![t] =
          [Idle EXCEPT !.op = "exit",
                       !.idx = IF Len(platforms) = 0 THEN 0 ELSE 1,
                       !.status = IF Len(platforms) = 0 THEN "returned" ELSE "running"]]
    /\ UNCHANGED <<platforms, channels, messages, chan_ids, msgs, running, tasks,
                   loopStarted, users, started>>

\* CrossChat.exit, one turn of the loop: platform.exit().  For a
\* TelegramPlatform the turn begins with loop.create_task(self.app.stop()) and
\* goes on in ExitTelegramWait.  After the last turn exit prints and returns;
\* it does nothing to self.loop or self.thread.
ExitStep(t) ==
    /\ Busy(t)
    /\ frame[t].op = "exit"
    /\ frame[t].task = 0
    /\ LET f == frame[t]
           platform == platforms[f.idx].obj
           last == f.idx = Len(platforms)
       IN IF PKind(platform) = "telegram"
          THEN /\ FreeTask # 0
               /\ tasks' = [tasks EXCEPT ![FreeTask].state = "pending"]
               /\ frame' = [frame EXCEPT ![t].task = FreeTask]
          ELSE /\ frame' = [frame EXCEPT
                     ![t].calls = Append(@, ExitCallEntry(platform, exit(platform))),
                     ![t].idx = @ + 1,
                     ![t].status = IF last THEN "returned" ELSE "running"]
               /\ UNCHANGED tasks
    /\ UNCHANGED <<platforms, channels, messages, chan_ids, msgs, running,
                   loopStarted, users, started>>

\* TelegramPlatform.exit after create_task: wait_for_task(task) polls the task;
\* once it is done, self.thread.join() follows.  self.thread is the polling
\* thread if run() started one (it has ended by itself: its first statement
\* that uses self.crosschat.run_coroutine raises), and None otherwise, in
\* which case the join raises AttributeError out of exit.
ExitTelegramWait(t) ==
    /\ Busy(t)
    /\ frame[t].op = "exit"
    /\ frame[t].task # 0
    /\ LET f == frame[t]
           platform == platforms[f.idx].obj
           last == f.idx = Len(platforms)
       IN IF ~TaskDone(f.task)
          THEN frame' = [frame EXCEPT ![t].waited = TRUE]
          ELSE IF platform \in started
          THEN frame' = [frame EXCEPT
                  ![t].calls = Append(@, ExitCallEntry(platform, Outcome(FALSE, None, TRUE))),
                  ![t].task = 0,
                  ![t].idx = @ + 1,
                  ![t].status = IF last THEN "returned" ELSE "running"]
          ELSE frame' = [frame EXCEPT
                  ![t].calls = Append(@, ExitCallEntry(platform, Outcome(TRUE, None, FALSE))),
                  ![t].task = 0,
                  ![t].status = "raised"]
    /\ UNCHANGED <<platforms, channels, messages, chan_ids, msgs, running, tasks,
                   loopStarted, users, started>>

NextLife ==
    \/ \E o \in PlatformObjs : AddToCrosschat("main", o)
    \/ Run("main")
    \/ ExitCall("main")
    \/ ExitStep("main")
    \/ ExitTelegramWait("main")
    \/ \E k \in TaskIds : LoopRunTask(k)

SpecLife == Init /\ [][NextLife]_vars

\* ---------------------------------------------------------------- reply preamble
\* The longest replied-to content the model feeds to make_reply_str.
MaxReplyLen == 102

\* `if len(reply.content) > 100`, and the two slices [:70] and [-20:].
ReplyLimit == 100
ReplyHead == 70
ReplyTail == 20

\* A string is the sequence of its characters; the i-th character of a content
\* is written ToString(i), so that a slice shows where it was cut from.
Text(n) == [i \in 1..n |-> ToString(i)]
Ellipsis == <<".", ".", ".">>

\* The argument of make_reply_str: <<>> for None, <<reply>> for an
\* OriginalMessage, of which the function reads user and content.
ReplyArgs ==
    {<<>>} \cup {<<[user |-> u, content |-> Text(n)]>> : u \in Users, n \in 0..MaxReplyLen}

\* Python's s[:n] and s[-n:].
SliceHead(s, n) == SubSeq(s, 1, IF n < Len(s) THEN n ELSE Len(s))
SliceTail(s, n) == SubSeq(s, IF n < Len(s) THEN Len(s) - n + 1 ELSE 1, Len(s))

\* (a comparison that already cuts a content of exactly the limit)
TooLongAtLimit(content) == Len(content) >= ReplyLimit
\* CrossChat.make_reply_str, `if len(reply.content) > 100`.
TooLong(content) == Len(content) > ReplyLimit

\* CrossChat.make_reply_str: "" without a reply, else
\* f"Replying to {reply.user.get_name()}: '{content}'\n" with the content cut
\* to its first 70 characters, "..." and its last 20 when it is too long.
make_reply_str(reply) ==
    IF reply # <<>>
    THEN LET content == IF TooLong(reply[1].content)
                        THEN SliceHead(reply[1].content, ReplyHead) \o Ellipsis
                               \o SliceTail(reply[1].content, ReplyTail)
                        ELSE reply[1].content
         IN <<"Replying to ", reply[1].user, ": '">> \o content \o <<"'", "\n">>
    ELSE <<>>

\* A call of make_reply_str (DiscordPlatform.send_message makes it for the
\* reply it is given).
MakeReplyStr(t, reply) ==
    /\ ~Busy(t)
    /\ frame' = [frame EXCEPT ![t] =
          [Idle EXCEPT !.op = "make_reply_str", !.status = "returned",
                       !.arg = reply, !.ret = make_reply_str(reply)]]
    /\ UNCHANGED <<platforms, channels, messages, chan_ids, msgs, running, tasks,
                   loopStarted, users, started>>

NextReply == \E reply \in ReplyArgs : MakeReplyStr("main", reply)

SpecReply == Init /\ [][NextReply]_vars

\* ---------------------------------------------------------------- registry lists
\* CrossChat.add_user: self.users.append(user).
AddUser(t, u) ==
    /\ ~Busy(t)
    /\ Len(users) < MaxRegistered
    /\ users' = Append(users, u)
    /\ frame' = [frame EXCEPT ![t] = Idle]
    /\ UNCHANGED <<platforms, channels, messages, chan_ids, msgs, running, tasks,
                   loopStarted, started>>

\* Every operation of the core on one thread: the registrations, the three
\* sweeps, startup and shutdown.
NextRegistry ==
    \/ \E o \in RegistryPlatforms : AddToCrosschat("main", o)
    \/ \E c \in ChanObjs : AddChannel("main", c)
    \/ \E u \in UserObjs : AddUser("main", u)
    \/ \E m \in MsgObjs : NewMessage("main", m)
    \/ \E m \in MsgObjs : AddMessage("main", m)
    \/ \E m \in MsgObjs : BroadcastCall("main", m)
    \/ BroadcastStep("main")
    \/ \E m \in MsgObjs, c \in Contents : EditCall("main", m, c)
    \/ EditStep("main")
    \/ \E m \in MsgObjs : DeleteCall("main", m)
    \/ DeleteStep("main")
    \/ Run("main")
    \/ ExitCall("main")
    \/ ExitStep("main")

SpecRegistry == Init /\ [][NextRegistry]_vars

\* ---------------------------------------------------------------- platform registry
\* A call of CrossChat.add_platform(name, platform), with any name.
AddPlatform(t, name, o) ==
    /\ ~Busy(t)
    /\ platforms' = add_platform(name, o)
    /\ frame' = [frame EXCEPT ![t] =
          [Idle EXCEPT !.op = "add_platform", !.status = "returned",
                       !.key = name, !.arg = o]]
    /\ UNCHANGED <<channels, messages, chan_ids, msgs, running, tasks,
                   loopStarted, users, started>>

\* A call of CrossChat.get_platform(name).
GetPlatform(t, name) ==
    /\ ~Busy(t)
    /\ frame' = [frame EXCEPT ![t] =
          [Idle EXCEPT !.op = "get_platform", !.status = "returned",
                       !.key = name, !.ret = get_platform(name)]]
    /\ UNCHANGED <<platforms, channels, messages, chan_ids, msgs, running, tasks,
                   loopStarted, users, started>>

NextPlatforms ==
    \/ \E name \in RegNames, o \in RegObjs : AddPlatform("main", name, o)
    \/ \E name \in RegNames : GetPlatform("main", name)

SpecPlatforms == Init /\ [][NextPlatforms]_vars

\* ---------------------------------------------------------------- concurrent appends
\* The three lists of the registry, by attribute name.
ListNames == {"channels", "users", "messages"}
RegistryList(which) ==
    CASE which = "channels" -> channels
      [] which = "users" -> users
      [] which = "messages" -> messages

\* The objects add_channel, add_user and add_message are handed.  The lists
\* hold references: what the object holds plays no part in the append.
ListObjs(which) ==
    CASE which = "channels" -> ChanObjs
      [] which = "users" -> UserObjs
      [] which = "messages" -> MsgObjs

\* (an append that writes back the list as the thread first saw it)
AppendedToSeen(list, seen, x) == Append(SubSeq(list, 1, seen), x)
\* list.append(x) on the list object the attribute refers to: one indivisible
\* operation of the interpreter on the live list, however long it was when
\* the thread evaluated `self.channels`.
Appended(list, seen, x) == Append(list, x)

\* add_channel / add_user / add_message taken in its two steps.  First the
\* thread evaluates the attribute (self.channels, self.users, self.messages):
\* it now holds the list object; idx notes how long the list was then.
AppendLoad(t, which, x) ==
    /\ ~Busy(t)
    /\ x \in ListObjs(which)
    /\ Len(RegistryList(which)) < MaxRegistered
    /\ frame' = [frame EXCEPT ![t] =
          [Idle EXCEPT !.op = "append", !.status = "running", !.key = which,
                       !.arg = x, !.idx = Len(RegistryList(which))]]
    /\ UNCHANGED <<platforms, channels, messages, chan_ids, msgs, running, tasks,
                   loopStarted, users, started>>

\* Then it calls .append(x) on that object and returns.
AppendCall(t) ==
    /\ Busy(t)
    /\ frame[t].op = "append"
    /\ LET f == frame[t]
           list == Appended(RegistryList(f.key), f.idx, f.arg)
       IN /\ channels' = IF f.key = "channels" THEN list ELSE channels
          /\ users' = IF f.key = "users" THEN list ELSE users
          /\ messages' = IF f.key = "messages" THEN list ELSE messages
    /\ frame' = [frame EXCEPT ![t].status = "returned", ![t].writes = 1]
    /\ UNCHANGED <<platforms, chan_ids, msgs, running, tasks, loopStarted, started>>

\* Registrations made by the main thread and by a callback on the loop thread.
NextAppend ==
    \/ \E t \in Threads, which \in ListNames, x \in ChanObjs \cup UserObjs \cup MsgObjs :
          AppendLoad(t, which, x)
    \/ \E t \in Threads : AppendCall(t)

SpecAppend == Init /\ [][NextAppend]_vars

\* ---------------------------------------------------------------- startup
\* main() and test.py: `cc.run()` and, as the next statement of the same
\* thread, `cc.wait_for_platforms()`.
MainWaitForPlatforms(t) ==
    /\ frame[t].op = "run"
    /\ frame[t].status = "returned"
    /\ WaitForPlatformsCall(t)

NextStartup ==
    \/ \E o \in PlatformObjs : AddToCrosschat("main", o)
    \/ Run("main")
    \/ MainWaitForPlatforms("main")
    \/ WaitForPlatformsPoll("main")
    \/ \E o \in PlatformObjs : AdapterUp(o)

SpecStartup == Init /\ [][NextStartup]_vars

\* ---------------------------------------------------------------- inbound
\* (a callback that goes on whatever the lookup returned)
ChannelFoundAlways(channel) == TRUE
\* DiscordPlatform.on_message, `if channel:` on the result of get_channel.
ChannelFound(channel) == channel # None

\* DiscordPlatform.on_message, run on thread t for an event of adapter o: an
\* event of the bot's own account returns at once; otherwise the channel is
\* looked up under the adapter's name and, if there is one, a User, an
\* OriginalMessage (with the event's attachments) and a Message are built and
\* Message.broadcast is entered.  (broadcast returns None, so the `await` that
\* follows it raises TypeError and the print after it is not reached.)
OnMessage(t, o, w, author, id, content, attachments) ==
    /\ ~Busy(t)
    /\ PKind(o) = "discord"
    /\ w \notin DOMAIN msgs
    /\ UNCHANGED <<platforms, channels, messages, chan_ids, running, tasks,
                   loopStarted, users, started>>
    /\ LET channel == get_channel(id, PName(o))
           event == [Idle EXCEPT !.cb = "on_message", !.arg = author, !.id = id,
                                 !.key = PName(o)]
       IN IF author # BotUser /\ ChannelFound(channel)
          THEN /\ msgs' = DictSet(msgs, w,
                     Message([content |-> content, id |-> id, platform |-> o,
                              user |-> author, channel |-> channel,
                              attachments |-> attachments], None))
               /\ LET todo == BroadcastTargets(w)'
                  IN frame' = [frame EXCEPT ![t] =
                        [event EXCEPT !.op = "broadcast", !.m = w, !.todo = todo,
                                      !.status = IF todo = <<>> THEN "returned"
                                                 ELSE "running"]]
          ELSE /\ frame' = [frame EXCEPT ![t] =
                     [event EXCEPT !.op = "on_message", !.status = "returned"]]
               /\ UNCHANGED msgs

NextInbound ==
    \/ \E o \in InboundPlatforms : AddToCrosschat("main", o)
    \/ \E c \in ChanObjs, id \in NativeIds : SetId("main", c, "discord", id)
    \/ \E c \in ChanObjs : AddChannel("main", c)
    \/ \E w \in InboundMsgObjs, author \in Authors, id \in NativeIds,
          content \in InboundContents, attachments \in AttachmentLists :
          OnMessage("sched", "p_discord", w, author, id, content, attachments)
    \/ BroadcastStep("sched")

SpecInbound == Init /\ [][NextInbound]_vars

\* ---------------------------------------------------------------- overlap
\* Thread t is inside an adapter's send_message: it has entered one more call
\* than its log holds finished calls.
Inside(t) == frame[t].entered > Len(frame[t].calls)

\* The adapter whose send_message thread t is inside, None when it is in none.
AdapterIn(t) == IF Inside(t) THEN get_platform(Head(frame[t].todo)) ELSE None

\* Message.broadcast, the call `platform.send_message(...)` begins: the thread
\* is in the adapter's method until BroadcastStep finishes the call.  No lock
\* is taken and no other thread is looked at.
BroadcastEnter(t) ==
    /\ Busy(t)
    /\ frame[t].op = "broadcast"
    /\ ~Inside(t)
    /\ get_platform(Head(frame[t].todo)) # None
    /\ frame' = [frame EXCEPT ![t].entered = Len(frame[t].calls) + 1]
    /\ UNCHANGED <<platforms, channels, messages, chan_ids, msgs, running, tasks,
                   loopStarted, users, started>>

\* The call entered by BroadcastEnter ends (or the name is not registered and
\* there is no call to make).
BroadcastLeave(t) ==
    /\ Busy(t)
    /\ frame[t].op = "broadcast"
    /\ Inside(t) \/ get_platform(Head(frame[t].todo)) = None
    /\ BroadcastStep(t)

NextOverlap ==
    \/ \E o \in InboundPlatforms : AddToCrosschat("main", o)
    \/ \E c \in InboundChannels, id \in NativeIds : SetId("main", c, "discord", id)
    \/ \E c \in InboundChannels : AddChannel("main", c)
    \/ \E m \in MsgObjs : NewMessage("main", m)
    \/ \E m \in MsgObjs : BroadcastCall("main", m)
    \/ \E w \in InboundMsgObjs, author \in Users, id \in NativeIds,
          content \in InboundContents :
          OnMessage("sched", "p_discord", w, author, id, content, <<>>)
    \/ \E t \in Threads : BroadcastEnter(t)
    \/ \E t \in Threads : BroadcastLeave(t)

SpecOverlap == Init /\ [][NextOverlap]_vars

\* ---------------------------------------------------------------- repeated broadcast
\* m.broadcast() called again after an earlier m.broadcast() has ended.  The
\* earlier call stays in frame["main"]; the later calls are made from the
\* second thread, one after the other, so both call logs can be compared.
BroadcastFirst(t, m) ==
    /\ \A u \in Threads \ {t} : frame[u].op = "none"
    /\ BroadcastCall(t, m)

BroadcastAgain(t, m) ==
    /\ \E u \in Threads \ {t} :
          /\ frame[u].op = "broadcast"
          /\ frame[u].status \in {"returned", "raised"}
          /\ frame[u].m = m
    /\ BroadcastCall(t, m)

NextRepeat ==
    \/ \E o \in PlatformObjs : ~Busy("sched") /\ AddToCrosschat("main", o)
    \/ \E m \in MsgObjs : ~Busy("sched") /\ NewMessage("main", m)
    \/ \E m \in MsgObjs : BroadcastFirst("main", m)
    \/ BroadcastStep("main")
    \/ \E m \in MsgObjs : BroadcastAgain("sched", m)
    \/ BroadcastStep("sched")

SpecRepeat == Init /\ [][NextRepeat]_vars

\* ---------------------------------------------------------------- edit during broadcast
\* The adapters whose send_message posts a copy and returns its id.
PostingPlatforms == {"p_test", "p_slack"}

\* M.edit(c) on the main thread while M.broadcast() runs on the scheduler
\* thread: neither method takes a lock, so the turns of the two loops
\* interleave freely.
NextEditRace ==
    \/ \E o \in PostingPlatforms : AddToCrosschat("main", o)
    \/ \E m \in MsgObjs : NewMessage("main", m)
    \/ \E m \in MsgObjs, c \in Contents : EditCall("main", m, c)
    \/ EditStep("main")
    \/ \E m \in MsgObjs : BroadcastCall("sched", m)
    \/ BroadcastStep("sched")

SpecEditRace == Init /\ [][NextEditRace]_vars

\* ================================================================ claims
RegisteredKeys == SeqToSet(get_platforms_str)
Ended(f) == f.status \in {"returned", "raised"}
OriginName(m) == PName(msgs[m].originalMessage.platform)
\* The positions of f's call log that hold a call on the platform registered as key.
CallsTo(f, key) == {i \in 1..Len(f.calls) : f.calls[i].obj = get_platform(key)}
AllPosted(f) == \A i \in 1..Len(f.calls) : f.calls[i].out.posted

\* C1: when broadcast(M) has returned and every send posted, the keys of M.ids
\* are the origin plus every registered non-origin platform, each non-origin
\* entry is the id that platform's send_message returned, and M.ids[origin]
\* is the id M was constructed with.
C1_BroadcastIds ==
    \A t \in Threads :
      LET f == frame[t] IN
      (f.op = "broadcast" /\ f.status = "returned" /\ AllPosted(f)) =>
        LET M == msgs[f.m]
            origin == OriginName(f.m)
        IN /\ DOMAIN M.ids = {origin} \cup (RegisteredKeys \ {origin})
           /\ \A key \in RegisteredKeys \ {origin} :
                \E i \in CallsTo(f, key) : M.ids[key] = f.calls[i].out.ret
           /\ M.ids[origin] = M.originalMessage.id

\* C1 witness: a broadcast with a registered origin returned after two successful sends.
C1_Witness ==
    LET f == frame["main"] IN
    /\ f.op = "broadcast" /\ f.status = "returned" /\ AllPosted(f)
    /\ Len(f.calls) = 2
    /\ OriginName(f.m) \in RegisteredKeys

\* C2: one broadcast(M) issues exactly one send_message to every registered
\* platform other than the origin, with M.channel, M.content, M.user and
\* M.reply, and none to the origin.
C2_OneSendPerPlatform ==
    \A t \in Threads :
      LET f == frame[t] IN
      (f.op = "broadcast" /\ Ended(f)) =>
        LET M == msgs[f.m]
            origin == OriginName(f.m)
        IN /\ \A key \in RegisteredKeys \ {origin} : Cardinality(CallsTo(f, key)) = 1
           /\ \A i \in 1..Len(f.calls) :
                /\ f.calls[i].fn = "send_message"
                /\ PName(f.calls[i].obj) # origin
                /\ f.calls[i].channel = M.channel
                /\ f.calls[i].content = M.content
                /\ f.calls[i].user = M.user
                /\ f.calls[i].reply = M.reply

\* C3: one edit(M, c) invokes edit_message(M.channel, M, c) exactly once on
\* every registered platform, the origin included, assigns M.content once and
\* leaves M.content = c when it returns; no repository adapter makes it raise.
C3_EditAll ==
    \A t \in Threads :
      LET f == frame[t] IN
      (f.op = "edit" /\ Ended(f)) =>
        /\ f.status = "returned"
        /\ Len(f.calls) = Len(platforms)
        /\ \A key \in RegisteredKeys : Cardinality(CallsTo(f, key)) = 1
        /\ \A i \in 1..Len(f.calls) :
             /\ f.calls[i].fn = "edit_message"
             /\ f.calls[i].channel = msgs[f.m].channel
             /\ f.calls[i].msg = f.m
             /\ f.calls[i].content = f.arg
        /\ f.writes = 1
        /\ msgs[f.m].content = f.arg

\* C3 witness: an edit that changed the content returned after calling three
\* platforms, the origin among them.
C3_Witness ==
    LET f == frame["main"] IN
    /\ f.op = "edit" /\ f.status = "returned"
    /\ Len(f.calls) = 3
    /\ OriginName(f.m) \in RegisteredKeys
    /\ f.arg = "EDITED"

\* C4: delete(M) invokes delete_message(M.channel, M) exactly once on every
\* registered platform, and no step of it changes M, the registry lists or the
\* channels, so that what a later edit or broadcast dispatches is what it
\* would dispatch had delete never been called.
C4_DeleteCalls ==
    \A t \in Threads :
      LET f == frame[t] IN
      (f.op = "delete" /\ Ended(f)) =>
        /\ f.status = "returned"
        /\ Len(f.calls) = Len(platforms)
        /\ \A key \in RegisteredKeys : Cardinality(CallsTo(f, key)) = 1
        /\ \A i \in 1..Len(f.calls) :
             /\ f.calls[i].fn = "delete_message"
             /\ f.calls[i].channel = msgs[f.m].channel
             /\ f.calls[i].msg = f.m
C4_DeleteFrame ==
    (\E t \in Threads : frame'[t].op = "delete" /\ frame'[t] # frame[t]) =>
        /\ UNCHANGED <<platforms, channels, messages, chan_ids, msgs>>
        /\ \A m \in DOMAIN msgs : BroadcastTargets(m)' = BroadcastTargets(m)
\* C4: both parts: the calls of a finished delete, and the frame of its steps.
C4_DeleteNoLocalChange == [](C4_DeleteCalls) /\ [][C4_DeleteFrame]_vars

\* C4 witness: a delete of a registered Message returned after calling two platforms.
C4_Witness ==
    LET f == frame["main"] IN
    /\ f.op = "delete" /\ f.status = "returned"
    /\ Len(f.calls) = 2
    /\ messages # <<>>

\* C5: a call that raises during a sweep does not keep the sweep from calling
\* the platforms that come later in the order.
C5_SweepContinues ==
    \A t \in Threads :
      LET f == frame[t] IN
      (f.op \in {"broadcast", "edit", "delete"} /\ f.status = "raised") =>
        \A key \in RegisteredKeys \ (IF f.op = "broadcast" THEN {OriginName(f.m)} ELSE {}) :
            CallsTo(f, key) # {}

\* The registered channels that store id under key.
Holders(id, key) ==
    {c \in SeqToSet(channels) : key \in DOMAIN chan_ids[c] /\ chan_ids[c][key] = id}

\* C6: get_channel(X, P) returns C when C is the one registered channel that
\* holds X for P, and None when no registered channel holds X for P.
C6_FindChannelRoundTrip ==
    \A t \in Threads :
      LET f == frame[t] IN
      (f.op = "get_channel" /\ f.status = "returned") =>
        /\ \A c \in ChanObjs : Holders(f.id, f.key) = {c} => f.ret = c
        /\ Holders(f.id, f.key) = {} => f.ret = None

\* C6 witness: the lookup found the channel registered second, the first one
\* holding the same id for the other platform.
C6_Witness ==
    LET f == frame["main"] IN
    /\ f.op = "get_channel" /\ f.status = "returned"
    /\ Len(channels) = 2 /\ channels[1] # channels[2]
    /\ f.ret = channels[2]
    /\ \E k \in DOMAIN chan_ids[channels[1]] : chan_ids[channels[1]][k] = f.id

\* C7 (as claimed): get_channel returns None whenever the platform name is not
\* the name of a registered platform.
C7_NoneIfUnregistered ==
    \A t \in Threads :
      LET f == frame[t] IN
      (f.op = "get_channel" /\ f.status = "returned" /\ f.key \notin RegisteredKeys) =>
        f.ret = None

\* C7 (amended): get_channel does not consult the platform registry: for a
\* name that is not registered it returns a registered channel that stores the
\* id under that name when there is one, and None only when there is none.
C7_UnregisteredStillFound ==
    \A t \in Threads :
      LET f == frame[t] IN
      (f.op = "get_channel" /\ f.status = "returned" /\ f.key \notin RegisteredKeys) =>
        /\ f.ret = None <=> Holders(f.id, f.key) = {}
        /\ f.ret # None => f.ret \in Holders(f.id, f.key)

\* C7 witness: a lookup under an unregistered platform name returned a channel.
C7_Witness ==
    LET f == frame["main"] IN
    /\ f.op = "get_channel" /\ f.status = "returned"
    /\ f.key \notin RegisteredKeys
    /\ f.ret # None

\* C8: wait_for_platforms returns only after the health_check of every
\* registered platform has returned true during the call, and it never polls
\* a platform before every platform registered earlier has returned true.
C8_ReadinessGate ==
    \A t \in Threads :
      LET f == frame[t] IN
      f.op = "wait_for_platforms" =>
        /\ f.status = "returned" => f.passed = 1..Len(platforms)
        /\ \A j \in f.polled : \A i \in 1..(j - 1) : i \in f.passed

\* C8 witness: the gate returned over three platforms after having had to wait.
C8_Witness ==
    LET f == frame["main"] IN
    /\ f.op = "wait_for_platforms" /\ f.status = "returned"
    /\ Len(platforms) = 3
    /\ f.waited

\* C9: wait_for_task called off the scheduler thread returns only when the
\* task is done, and once the task is done the call returns.
C9_WaitSafe ==
    \A t \in Threads \ {"sched"} :
      (frame[t].op = "wait_for_task" /\ frame[t].status = "returned") =>
        tasks[frame[t].task].state = "done"
\* C9: both parts: a return only on a done task, and a done task leads to the return.
C9_WaitForTask ==
    /\ [](C9_WaitSafe)
    /\ \A t \in Threads \ {"sched"} : \A k \in TaskIds :
         (frame[t].op = "wait_for_task" /\ frame[t].task = k /\ Busy(t)
            /\ tasks[k].state = "done")
         ~> (frame[t].op = "wait_for_task" /\ frame[t].task = k
               /\ frame[t].status = "returned")

\* C9 witness: the caller had to poll, the loop thread ran the task, the call returned.
C9_Witness ==
    LET f == frame["main"] IN
    /\ f.op = "wait_for_task" /\ f.status = "returned" /\ f.waited
    /\ loopStarted
    /\ tasks[f.task].state = "done"

\* C10: when the task is done, the waiting call hands its outcome to the
\* caller: the result value if it succeeded, its failure if it failed.
C10_OutcomeHandedOver ==
    \A t \in Threads :
      LET f == frame[t] IN
      (f.op = "wait_for_task" /\ Ended(f)) =>
        IF tasks[f.task].failed
        THEN f.status = "raised"
        ELSE f.status = "returned" /\ f.ret = tasks[f.task].value
\* C11: a wait_for_task made on the scheduler thread for a task that is not
\* yet done never returns: the thread stays in the call and the task, which
\* only that thread could run, stays not done.
C11_SchedulerWaitNeverReturns ==
    [][\A k \in TaskIds :
         (frame["sched"].op = "wait_for_task" /\ frame["sched"].task = k
            /\ Busy("sched") /\ tasks[k].state # "done")
         => (frame'["sched"].op = "wait_for_task" /\ frame'["sched"].task = k
               /\ frame'["sched"].status = "running" /\ tasks'[k].state # "done")]_vars

\* C11 witness: the loop runs, the scheduler thread has polled a pending task
\* at least once and is still inside wait_for_task.
C11_Witness ==
    LET f == frame["sched"] IN
    /\ f.op = "wait_for_task" /\ Busy("sched") /\ f.waited
    /\ loopStarted
    /\ tasks[f.task].state = "pending"
\* C12: every adapter operation the synchronous core issues is executed on
\* the scheduler thread, never directly on the thread that called the core.
C12_AdapterWorkOnScheduler ==
    \A t \in Threads :
      \A i \in 1..Len(frame[t].calls) :
        ExecutedOn(frame[t].calls[i].obj, t) = "sched"
\* C13: no two core-initiated operations are in progress on one adapter at the
\* same time: a sweep of the main thread and a sweep started by an inbound
\* callback on the scheduler thread are never inside the same adapter together.
C13_AdapterCallsSerialized ==
    \A t1, t2 \in Threads :
      (t1 # t2 /\ Inside(t1) /\ Inside(t2)) => AdapterIn(t1) # AdapterIn(t2)
\* C19: an inbound event whose channel id find_channel does not resolve is
\* dropped: the callback returns without building a Message, without any
\* send_message call, and without queueing anything.
C19_UnmappedEventDropped ==
    [][\A t \in Threads :
         (~Busy(t) /\ frame'[t] # frame[t] /\ frame'[t].cb = "on_message"
            /\ get_channel(frame'[t].id, frame'[t].key) = None)
         => /\ frame'[t].op = "on_message"
            /\ frame'[t].status = "returned"
            /\ frame'[t].calls = <<>>
            /\ UNCHANGED <<msgs, messages, tasks, channels, chan_ids, platforms>>]_vars

\* C19 witness: a user's event on an id no registered channel carries was
\* dropped while a channel and a platform to relay to were registered.
C19_Witness ==
    LET f == frame["sched"] IN
    /\ f.op = "on_message" /\ f.status = "returned" /\ f.arg # BotUser
    /\ get_channel(f.id, f.key) = None
    /\ \E c \in SeqToSet(channels) : ChannelGetId(c, f.key) \notin {None, f.id}
    /\ HasKey("test")

\* C20: when a Message whose OriginalMessage carries attachments has been
\* broadcast, every send_message call of the sweep was given those attachments
\* to relay as follow-up posts.
C20_AttachmentsRelayed ==
    \A t \in Threads :
      LET f == frame[t] IN
      (f.op = "broadcast" /\ f.status = "returned") =>
        \A i \in 1..Len(f.calls) :
          f.calls[i].attachments = msgs[f.m].originalMessage.attachments
\* C14, first half: when CrossChat.exit has returned, exit was invoked once
\* on every registered platform, in registration order.
C14_ExitCallsInOrder ==
    \A t \in Threads :
      LET f == frame[t] IN
      (f.op = "exit" /\ f.status = "returned") =>
        [i \in 1..Len(f.calls) |-> f.calls[i].obj]
          = [i \in 1..Len(platforms) |-> platforms[i].obj]
\* C14: when CrossChat.exit has returned, every registered platform's exit
\* was invoked exactly once, in registration order, and the scheduler loop
\* has been stopped: it is no longer running.
C14_ExitStopsLoop ==
    /\ C14_ExitCallsInOrder
    /\ \A t \in Threads :
         (frame[t].op = "exit" /\ frame[t].status = "returned") => ~loopStarted
\* The replied-to content as a preamble renders it: what stands between the
\* opening "Replying to <name>: '" and the closing "'\n".
Quoted(preamble) == SubSeq(preamble, 4, Len(preamble) - 2)

\* C15: make_reply_str renders a replied-to content of 100 characters or
\* fewer unmodified; a longer one as its first 70 characters, a three-character
\* ellipsis and its last 20 characters, 93 characters in all; with no reply
\* the result is the empty string.
C15_ReplyPreamble ==
    \A t \in Threads :
      LET f == frame[t] IN
      f.op = "make_reply_str" =>
        IF f.arg = <<>>
        THEN f.ret = <<>>
        ELSE LET c == f.arg[1].content
                 n == Len(c)
                 q == Quoted(f.ret)
             IN /\ f.ret[2] = f.arg[1].user
                /\ IF n <= 100
                   THEN q = c
                   ELSE /\ Len(q) = 93
                        /\ \A i \in 1..70 : q[i] = c[i]
                        /\ \A i \in 71..73 : q[i] = "."
                        /\ \A j \in 1..20 : q[73 + j] = c[n - 20 + j]

\* C15 witness: a content of more than 100 characters was rendered in 93.
C15_Witness ==
    LET f == frame["main"] IN
    /\ f.op = "make_reply_str"
    /\ f.arg # <<>>
    /\ Len(f.arg[1].content) > 100
    /\ Len(Quoted(f.ret)) = 93
\* C16: M.ids is a mapping, so it holds at most one native id per platform
\* name; it always holds the entry of M's origin platform; and no operation
\* removes a key from it: its key set only grows.
C16_IdsKeysOnlyGrow ==
    /\ [](\A m \in DOMAIN msgs : OriginName(m) \in DOMAIN msgs[m].ids)
    /\ [][\A m \in DOMAIN msgs :
            /\ m \in DOMAIN msgs'
            /\ DOMAIN msgs[m].ids \subseteq DOMAIN msgs'[m].ids]_vars

\* C16 witness: a broadcast has added two keys to the origin's entry.
C16_Witness ==
    \E m \in DOMAIN msgs :
      /\ Cardinality(DOMAIN msgs[m].ids) >= 3
      /\ OriginName(m) \in DOMAIN msgs[m].ids
      /\ frame["main"].op = "broadcast" /\ frame["main"].status = "returned"
\* The list after is the list before, or the list before with one element
\* added at its end.
AppendedOnly(before, after) ==
    /\ Len(after) \in {Len(before), Len(before) + 1}
    /\ \A i \in 1..Len(before) : after[i] = before[i]

\* C17: the registry's channel, user and message lists are append-only: over
\* every step of registration, broadcast, edit, delete, startup and shutdown
\* each element stays at its position, and a list changes only by one element
\* added at its end.
C17_ListsAppendOnly ==
    [][/\ AppendedOnly(channels, channels')
       /\ AppendedOnly(users, users')
       /\ AppendedOnly(messages, messages')]_vars

\* C17 witness: each list holds two registrations, the two channels differ,
\* and the system has been started and shut down since.
C17_Witness ==
    /\ Len(channels) = 2 /\ channels[1] # channels[2]
    /\ Len(users) = 2
    /\ Len(messages) = 2
    /\ loopStarted
    /\ frame["main"].op = "exit" /\ frame["main"].status = "returned"
    /\ Len(frame["main"].calls) = 1
\* C18: lookup_platform(n) is the platform of the most recent
\* register_platform(n, _), none for a name never registered, and
\* list_platform_names holds each registered name once, in the order of first
\* registration.  Stated step by step: the list starts empty; a registration
\* of n makes n's lookup the platform just passed, leaves every other name's
\* lookup alone and adds n at the end of the names unless n is there already;
\* no other call changes anything; a name has a lookup iff it is in the list.
C18_LastWriteWins ==
    /\ [](\A i, j \in 1..Len(get_platforms_str) :
            get_platforms_str[i] = get_platforms_str[j] => i = j)
    /\ [](\A n \in RegNames : (get_platform(n) = None) <=> (n \notin RegisteredKeys))
    /\ [](\A t \in Threads :
            (frame[t].op = "get_platform" /\ frame[t].key \notin RegisteredKeys)
              => frame[t].ret = None)
    /\ [][/\ platforms' # platforms => \E t \in Threads : frame'[t].op = "add_platform"
          /\ \A t \in Threads, n \in RegNames :
               (frame'[t].op = "add_platform" /\ frame'[t].key = n) =>
                 LET names == get_platforms_str
                 IN /\ get_platform(n)' = frame'[t].arg
                    /\ \A other \in RegNames \ {n} :
                         get_platform(other)' = get_platform(other)
                    /\ get_platforms_str' =
                         IF n \in SeqToSet(names) THEN names ELSE Append(names, n)]_vars

\* C18 witness: the first of two registered names has just been registered
\* again, with another platform than the one its lookup returned before.
C18_Witness ==
    LET f == frame["main"] IN
    /\ f.op = "add_platform"
    /\ Len(platforms) = 2
    /\ f.key = platforms[1].key
    /\ f.arg = platforms[1].obj
    /\ PName(f.arg) # f.key
    /\ PName(platforms[2].obj) = platforms[2].key
\* The position at which platform object o is registered, 0 when it is not.
RegisteredAt(o) ==
    IF \E i \in 1..Len(platforms) : platforms[i].obj = o
    THEN CHOOSE i \in 1..Len(platforms) : platforms[i].obj = o
    ELSE 0

\* C21: within one broadcast, edit or delete sweep the adapter calls are
\* issued in platform-registration order: a call to p comes before a call to
\* q whenever p was registered before q.
C21_CallsInRegistrationOrder ==
    \A t \in Threads :
      LET f == frame[t] IN
      f.op \in {"broadcast", "edit", "delete"} =>
        \A i, j \in 1..Len(f.calls) :
          i < j => /\ RegisteredAt(f.calls[i].obj) # 0
                   /\ RegisteredAt(f.calls[i].obj) < RegisteredAt(f.calls[j].obj)

\* C21 witness: a broadcast that skipped the origin, registered between its
\* two targets, and called the two targets.
C21_Witness ==
    LET f == frame["main"] IN
    /\ f.op = "broadcast" /\ f.status = "returned"
    /\ Len(f.calls) = 2
    /\ Len(platforms) = 3
    /\ platforms[2].key = OriginName(f.m)
\* C22: during edit(M, c) M.content keeps its old value until edit_message
\* has been issued to every registered platform: every step of the sweep that
\* does not end it with the last call leaves M.content as it was, and the
\* step that returns has issued all the calls and sets M.content to c.
C22_ContentAssignedLast ==
    [][\A t \in Threads :
         (frame'[t].op = "edit" /\ frame'[t] # frame[t]) =>
           LET M == frame'[t].m
           IN IF frame'[t].status = "returned"
              THEN /\ Len(frame'[t].calls) = Len(platforms)
                   /\ \A mm \in DOMAIN msgs : mm = M => msgs'[mm].content = frame'[t].arg
              ELSE \A mm \in DOMAIN msgs : mm = M => msgs'[mm].content = msgs[mm].content]_vars

\* C22 witness: midway through an edit over several platforms, with a call
\* already issued, M.content is still the old content.
C22_Witness ==
    LET f == frame["main"] IN
    /\ f.op = "edit" /\ Busy("main")
    /\ Len(f.calls) >= 1
    /\ msgs[f.m].content # f.arg

\* C23: edit(M, c) changes only M.content: every step of the call leaves
\* M.ids, M.channel, M.user, M.reply and M.originalMessage, and the registry's
\* platforms, channels, users and messages, as they were.
C23_EditChangesOnlyContent ==
    [][\A t \in Threads :
         (frame'[t].op = "edit" /\ frame'[t] # frame[t]) =>
           /\ UNCHANGED <<platforms, channels, users, messages, chan_ids>>
           /\ DOMAIN msgs' = DOMAIN msgs
           /\ \A mm \in DOMAIN msgs :
                msgs'[mm] = [msgs[mm] EXCEPT !.content = msgs'[mm].content]]_vars

\* C23 witness: an edit returned on a Message that a broadcast had given ids
\* beside the origin's, with a content other than the original one.
C23_Witness ==
    LET f == frame["main"] IN
    /\ f.op = "edit" /\ f.status = "returned"
    /\ Cardinality(DOMAIN msgs[f.m].ids) >= 2
    /\ msgs[f.m].content # msgs[f.m].originalMessage.content
\* C24: broadcast records M.ids[p] for a non-origin platform p only when p's
\* send_message posted the message, so every non-origin entry of M.ids is a
\* native id.
C24_OnlyPostedIdsRecorded ==
    \A m \in DOMAIN msgs :
      \A key \in DOMAIN msgs[m].ids \ {OriginName(m)} :
        msgs[m].ids[key] \in NativeIds

\* C25: when M has no id for a platform, the edit_message or delete_message
\* call that edit(M, c) or delete(M) makes on that platform is a no-op: the
\* adapter issues no request and raises no error.
C25_NoIdNoOp ==
    \A t \in Threads :
      LET f == frame[t] IN
      f.op \in {"edit", "delete"} =>
        \A i \in 1..Len(f.calls) :
          PName(f.calls[i].obj) \notin DOMAIN msgs[f.m].ids =>
            ~f.calls[i].out.posted /\ ~f.calls[i].out.raised
\* C26: when registrations run concurrently on the main thread and on the
\* scheduler thread no append is lost: the step that completes a registration
\* leaves every element the list held, whoever added it, and adds the new
\* element once at the end; the other lists are not touched.
C26_NoLostAppend ==
    [][\A t \in Threads, which \in ListNames :
         (frame[t].op = "append" /\ Busy(t) /\ frame[t].key = which
            /\ frame'[t].status = "returned") =>
           /\ RegistryList(which)' = Append(RegistryList(which), frame[t].arg)
           /\ \A other \in ListNames \ {which} :
                RegistryList(other)' = RegistryList(other)]_vars

\* C26 witness: both threads began a registration on the empty channel list
\* and both have completed it: the list holds the two channels.
C26_Witness ==
    /\ \A t \in Threads :
         /\ frame[t].op = "append" /\ frame[t].status = "returned"
         /\ frame[t].key = "channels" /\ frame[t].idx = 0
    /\ Len(channels) = 2
    /\ SeqToSet(channels) = {frame["main"].arg, frame["sched"].arg}
    /\ frame["main"].arg # frame["sched"].arg
\* C27: when the broadcasts of two Messages run on two threads with their
\* calls interleaved, every id a send returns is recorded in the Message that
\* was being broadcast, under the platform's name, and in no other Message;
\* so each Message ends with the ids its own sends returned, as it would had
\* the two broadcasts run one after the other.
C27_OwnIdsOnly ==
    /\ [](\A t \in Threads :
            (frame[t].op = "broadcast" /\ frame[t].status = "returned") =>
              \A key \in DOMAIN msgs[frame[t].m].ids \ {OriginName(frame[t].m)} :
                \E i \in 1..Len(frame[t].calls) :
                  /\ PName(frame[t].calls[i].obj) = key
                  /\ msgs[frame[t].m].ids[key] = frame[t].calls[i].out.ret)
    /\ [][\A t \in Threads :
            (frame'[t].op = "broadcast" /\ frame[t].op = "broadcast"
               /\ Len(frame'[t].calls) > Len(frame[t].calls)) =>
              \A mm \in DOMAIN msgs :
                IF mm = frame[t].m
                THEN \E out \in send_message(get_platform(Head(frame[t].todo))) :
                       /\ frame'[t].calls[Len(frame'[t].calls)].out = out
                       /\ msgs'[mm].ids =
                            IF out.raised THEN msgs[mm].ids
                            ELSE DictSet(msgs[mm].ids, Head(frame[t].todo), out.ret)
                ELSE msgs'[mm] = msgs[mm]]_vars

\* C27 witness: the main thread's broadcast has returned with its id
\* recorded while the callback's broadcast of another Message is inside the
\* same adapter, and both Messages have their own entry for it or are about to.
C27_Witness ==
    /\ frame["main"].op = "broadcast" /\ frame["main"].status = "returned"
    /\ Len(frame["main"].calls) >= 1
    /\ frame["sched"].op = "broadcast" /\ Inside("sched")
    /\ frame["main"].m # frame["sched"].m
    /\ AdapterIn("sched") = frame["main"].calls[1].obj
    /\ frame["main"].entered = 1
\* A wait_for_platforms call of thread t is in progress.
Gating(t) == frame[t].op = "wait_for_platforms" /\ Busy(t)

\* C28: wait_for_platforms terminates if every platform's health_check comes
\* to answer true; while the platform it is at answers false it does not
\* return, stays at that platform, and has polled no platform registered
\* after it.
C28_GateTermination ==
    /\ (\A o \in PlatformObjs : <>[](health_check(o)))
         => \A t \in Threads :
              Gating(t) ~> (frame[t].op = "wait_for_platforms"
                              /\ frame[t].status = "returned")
    /\ [](\A t \in Threads :
            Gating(t) => \A j \in frame[t].polled : j <= frame[t].idx)
    /\ [][\A t \in Threads :
            (Gating(t) /\ ~health_check(platforms[frame[t].idx].obj)) =>
              /\ frame'[t].op = "wait_for_platforms"
              /\ frame'[t].status = "running"
              /\ frame'[t].idx = frame[t].idx]_vars

\* C28 witness: the gate is held at the first of three platforms, which has
\* answered false, and nothing after it has been polled.
C28_Witness ==
    LET f == frame["main"] IN
    /\ Gating("main")
    /\ Len(platforms) = 3
    /\ f.idx = 1 /\ f.waited /\ f.polled = {1}
    /\ ~health_check(platforms[1].obj)
\* C29: CrossChat.run invokes run on every registered platform exactly once,
\* in registration order, and starts the scheduler thread once: when run has
\* returned the thread is running, a thread that runs is never started again,
\* and the readiness gate is entered only after run has issued all the
\* connects.
C29_Startup ==
    /\ [](\A t \in Threads :
            frame[t].op = "run" =>
              /\ [i \in 1..Len(frame[t].calls) |-> frame[t].calls[i].obj]
                   = [i \in 1..Len(platforms) |-> platforms[i].obj]
              /\ loopStarted
              /\ \A i \in 1..Len(frame[t].calls) : ~frame[t].calls[i].out.raised)
    /\ [][/\ loopStarted => loopStarted'
          /\ \A t \in Threads :
               (frame'[t].op = "run" /\ frame'[t].status = "returned"
                  /\ frame'[t] # frame[t]) => ~loopStarted
          /\ \A t \in Threads :
               (frame'[t].op = "wait_for_platforms" /\ frame[t].op # "wait_for_platforms") =>
                 /\ loopStarted
                 /\ [i \in 1..Len(frame[t].calls) |-> frame[t].calls[i].obj]
                      = [i \in 1..Len(platforms) |-> platforms[i].obj]
                 /\ \A i \in 1..Len(frame[t].calls) : frame[t].calls[i].fn = "run"]_vars

\* C29 witness: the gate has been entered after a startup over three platforms.
C29_Witness ==
    LET f == frame["main"] IN
    /\ f.op = "wait_for_platforms"
    /\ Len(platforms) = 3
    /\ loopStarted
    /\ \E i \in 1..3 : platforms[i].obj \in started
\* C30: if the origin platform of M is not registered, broadcast(M) sends to
\* every registered platform and M.ids then holds every registered platform
\* plus the origin's seeded entry; edit(M, c) and delete(M) never call the
\* origin platform.
C30_UnregisteredOrigin ==
    \A t \in Threads :
      LET f == frame[t] IN
      (f.op \in {"broadcast", "edit", "delete"} /\ OriginName(f.m) \notin RegisteredKeys) =>
        /\ (f.op = "broadcast" /\ Ended(f)) =>
             /\ \A key \in RegisteredKeys : CallsTo(f, key) # {}
             /\ DOMAIN msgs[f.m].ids = RegisteredKeys \cup {OriginName(f.m)}
        /\ f.op \in {"edit", "delete"} =>
             \A i \in 1..Len(f.calls) :
               f.calls[i].obj # msgs[f.m].originalMessage.platform
\* C33: get_channel never returns a channel that has no native id for the
\* queried platform: for every id argument, None included, a returned channel
\* has an id set for the platform and that id is the argument.
C33_FoundChannelHasId ==
    \A t \in Threads :
      LET f == frame[t] IN
      (f.op = "get_channel" /\ f.ret # None) =>
        /\ f.key \in DOMAIN chan_ids[f.ret]
        /\ chan_ids[f.ret][f.key] = f.id

\* C31: broadcast is repeatable and not idempotent: when broadcast(M) is called
\* again after an earlier broadcast(M) has ended, the later call issues one
\* more send_message to every registered platform other than the origin, and
\* M.ids[p] is then the id the most recent send_message to p returned, so an
\* earlier copy's id that differs from it is no longer M.ids[p].
C31_RebroadcastSendsAgain ==
    LET earlier == frame["main"]
        again == frame["sched"]
    IN (/\ earlier.op = "broadcast" /\ Ended(earlier)
        /\ again.op = "broadcast" /\ Ended(again)
        /\ again.m = earlier.m) =>
         LET M == msgs[again.m]
             origin == OriginName(again.m)
         IN \A key \in RegisteredKeys \ {origin} :
              /\ Cardinality(CallsTo(again, key)) = 1
              /\ key \in DOMAIN M.ids
              /\ \A i \in CallsTo(again, key) :
                   /\ again.calls[i].fn = "send_message"
                   /\ M.ids[key] = again.calls[i].out.ret
                   /\ \A j \in CallsTo(earlier, key) :
                        \/ earlier.calls[j].out.ret = again.calls[i].out.ret
                        \/ M.ids[key] # earlier.calls[j].out.ret

\* C31, the part the code keeps: in every repeated broadcast none of whose
\* adapter calls raised, the claim holds.
C31_RebroadcastWithoutFailure ==
    (\E t \in Threads : frame[t].status = "raised") \/ C31_RebroadcastSendsAgain

\* A later broadcast that ended after an earlier one had recorded another id
\* for the same platform, and whose every send posted.
C31_RebroadcastReached ==
    LET earlier == frame["main"]
        again == frame["sched"]
    IN /\ earlier.op = "broadcast" /\ earlier.status = "returned"
       /\ again.op = "broadcast" /\ again.status = "returned"
       /\ Len(again.calls) = 2 /\ AllPosted(again)
       /\ \E i \in 1..Len(again.calls), j \in 1..Len(earlier.calls) :
            /\ earlier.calls[j].obj = again.calls[i].obj
            /\ earlier.calls[j].out.ret # again.calls[i].out.ret

\* C32: when edit(M, c) on one thread and broadcast(M) on another have both
\* returned and M.content is c, every platform copy that broadcast posted
\* shows c: it was sent with content c, or an edit_message of that edit
\* reached it, having read the copy's id from M.
C32_CopiesShowEditedContent ==
    LET e == frame["main"]
        b == frame["sched"]
    IN (/\ e.op = "edit" /\ e.status = "returned"
        /\ b.op = "broadcast" /\ b.status = "returned"
        /\ b.m = e.m
        /\ msgs[e.m].content = e.arg) =>
         \A i \in 1..Len(b.calls) :
           b.calls[i].out.posted =>
             \/ b.calls[i].content = e.arg
             \/ \E j \in 1..Len(e.calls) :
                  /\ e.calls[j].obj = b.calls[i].obj
                  /\ e.calls[j].out.posted
                  /\ e.calls[j].messageId = b.calls[i].out.ret
====
